---- MODULE Spec2Model ----
(***************************************************************************)
(* Model of the table-to-graph conversion of TabuladorRDF                   *)
(* (src/convertir_a_rdf.py).                                                *)
(*                                                                          *)
(* Text is a sequence of one-character strings.  A term of the graph is a   *)
(* triple <<kind, text, datatype>>: a URI reference <<"uri", t, <<>>>> or a *)
(* literal <<"lit", t, dt>>.  The graph is a set of <<s, p, o>> triples, as *)
(* an rdflib Graph is.  Long constant strings of the source (the namespace  *)
(* URIs) are abbreviated; the functions applied to them are not.            *)
(***************************************************************************)
EXTENDS Integers, Sequences, FiniteSets, TLC

VARIABLES pc, cfg, index, row, g, cache, rowc, main_uri, todo, second, last,
          hist, refs, pin, pout

\* pc        where the function is: "start", "rows" (top of the row loop),
\*           "main" / "related" (inside the two column loops), "done"
\* cfg       main_entity_type_uri, main_entity_id_col, the delimiter table
\*           and column_rdf_mappings, with the cells the table draws from
\* index     position of the row being processed (rows completed so far)
\* row       the current row
\* g         the graph; cache: global_entity_uris_cache as <<tag, uri>>
\*           pairs; rowc: current_row_entities_cache
\* main_uri  main_entity_uri of the current row
\* todo      the mappings the current column loop still has to visit
\* second    g, cache and rowc of a second run on the same inputs
\* last      what the last step did: the source and retained values, the
\*           discriminators used and the triples passed to g.add
\* hist      per processed row: the row, its main node and main_id_value
\* refs      the related-entity references made: class tag, discriminator
\*           and node id
\* pin, pout argument and results of the sanitizer or the reduction loop
\*           when run on their own
vars == <<pc, cfg, index, row, g, cache, rowc, main_uri, todo, second, last,
          hist, refs, pin, pout>>

NULL == <<"NaN">>

\* ------------------------------------------------------------------ bounds
MaxRows == 2
MaxSegLen == 4
MaxValLen == 2
MaxVals == 3
MaxMappings == 2
MaxCellLen == 5

\* ------------------------------------------------------------- characters
Lowercase == {"a", "b", "c", "d", "e", "k", "n", "o", "p", "q", "r", "s",
              "u", "v", "w", "x", "y", "z"}
Uppercase == {"A", "B", "C", "D", "E", "P", "Q", "R"}
Digits == {"0", "1", "2", "3", "4", "5", "6", "7", "8", "9"}
\* \w of the regular expression: letters, digits and the underscore
WordChars == Lowercase \cup Uppercase \cup Digits \cup {"_"}
\* the characters [^\w.-]+ does not match
KeptChars == WordChars \cup {".", "-"}
\* what str.strip() with no argument removes
Whitespace == {" ", "\n"}

LowerOf == [c \in Uppercase |->
              CASE c = "A" -> "a" [] c = "B" -> "b" [] c = "C" -> "c"
                [] c = "D" -> "d" [] c = "E" -> "e" [] c = "P" -> "p"
                [] c = "Q" -> "q" [] c = "R" -> "r"]

\* str.lower()
Lower(s) == [i \in 1..Len(s) |-> IF s[i] \in Uppercase THEN LowerOf[s[i]] ELSE s[i]]

\* ---------------------------------------------------------------- strings
RECURSIVE LStrip(_, _)
LStrip(s, chars) ==
    IF s # <<>> /\ Head(s) \in chars THEN LStrip(Tail(s), chars) ELSE s

RECURSIVE RStrip(_, _)
RStrip(s, chars) ==
    IF s # <<>> /\ s[Len(s)] \in chars
    THEN RStrip(SubSeq(s, 1, Len(s) - 1), chars) ELSE s

\* str.strip(chars)
StripChars(s, chars) == RStrip(LStrip(s, chars), chars)

\* str.startswith
StartsWith(s, p) == Len(p) <= Len(s) /\ SubSeq(s, 1, Len(p)) = p

\* the characters of the model that [^\w.-] matches
OtherChars == {" ", "\n", "!", "/", "#", ";", ":"}

RECURSIVE DropRun(_)
DropRun(s) ==
    IF s # <<>> /\ Head(s) \notin KeptChars THEN DropRun(Tail(s)) ELSE s

\* re.sub(r'[^\w.-]+', '_', text): every maximal run of characters outside
\* KeptChars becomes one underscore
RECURSIVE SubRuns(_)
SubRuns(s) ==
    IF s = <<>> THEN <<>>
    ELSE IF Head(s) \in KeptChars THEN <<Head(s)>> \o SubRuns(Tail(s))
    ELSE <<"_">> \o SubRuns(DropRun(s))

UNKNOWN == <<"u", "n", "k", "n", "o", "w", "n">>

\* the two strip calls of clean_uri_segment: first '_', then '-'
StripEdges(s) == StripChars(StripChars(s, {"_"}), {"-"})

clean_uri_segment(text) ==
    LET cleaned_text == StripEdges(SubRuns(text))
    IN  IF cleaned_text = <<>> THEN UNKNOWN ELSE cleaned_text

\* [v.strip() for v in raw.split(delimiter) if v.strip()], delimiter one character
RECURSIVE SplitRaw(_, _, _)
SplitRaw(s, d, acc) ==
    IF s = <<>> THEN <<acc>>
    ELSE IF Head(s) = d THEN <<acc>> \o SplitRaw(Tail(s), d, <<>>)
    ELSE SplitRaw(Tail(s), d, Append(acc, Head(s)))

\* as SplitStripped, but the pieces are kept as they stand in the cell
SplitUnstripped(s, d) ==
    SelectSeq(SplitRaw(s, d, <<>>), LAMBDA v : StripChars(v, Whitespace) # <<>>)

\* as SplitStripped, but the empty pieces stay
SplitKeepEmpty(s, d) ==
    LET pieces == SplitRaw(s, d, <<>>)
    IN  [i \in 1..Len(pieces) |-> StripChars(pieces[i], Whitespace)]

SplitStripped(s, d) ==
    LET pieces == SplitRaw(s, d, <<>>)
        stripped == [i \in 1..Len(pieces) |-> StripChars(pieces[i], Whitespace)]
    IN  SelectSeq(stripped, LAMBDA v : v # <<>>)

split_values(raw_value, is_multivalued, delimiter) ==
    IF is_multivalued THEN SplitStripped(raw_value, delimiter) ELSE <<raw_value>>

\* list.sort(key=len, reverse=True): stable, longest first
RECURSIVE InsertByLen(_, _)
InsertByLen(sorted, v) ==
    IF sorted = <<>> THEN <<v>>
    ELSE IF Len(Head(sorted)) >= Len(v) THEN <<Head(sorted)>> \o InsertByLen(Tail(sorted), v)
    ELSE <<v>> \o sorted

RECURSIVE SortByLenDesc(_)
SortByLenDesc(vals) ==
    IF vals = <<>> THEN <<>>
    ELSE InsertByLen(SortByLenDesc(SubSeq(vals, 1, Len(vals) - 1)), vals[Len(vals)])

\* The kept forms that decide a candidate: the loop over processed_sub_values
\* stops at the first element for which one of the two tests holds.
Superseded(kept, cv) == {e \in kept : StartsWith(cv, e) /\ cv # e}
Subsuming(kept, cv) == {e \in kept : StartsWith(e, cv) /\ e # cv}

\* as SupersedeKept, but the superseded form stays in the set
SupersedeKeepBoth(kept, e, cv) == kept \cup {cv}

\* kept set after the candidate cv superseded the kept form e

SupersedeKept(kept, e, cv) == (kept \ {e}) \cup {cv}

\* as ReduceStep, but the candidate that supersedes a kept form is dropped
ReduceStepDropsSuperseder(kept, final, val) ==
    LET cleaned_val == clean_uri_segment(val)
        sup == Superseded(kept, cleaned_val)
        red == Subsuming(kept, cleaned_val)
    IN  IF sup \cup red = {}
        THEN {<<Append(final, val), kept \cup {cleaned_val}>>}
        ELSE {IF e \in sup
              THEN <<final, SupersedeKept(kept, e, cleaned_val)>>
              ELSE <<final, kept>>
              : e \in sup \cup red}

\* One pass of the loop body for the candidate val.  A Python set is
\* iterated in an order that depends on the hash seed, so any deciding
\* element may be met first: the result is the set of
\* <<final values, kept forms>> the pass can end with.
ReduceStep(kept, final, val) ==
    LET cleaned_val == clean_uri_segment(val)
        sup == Superseded(kept, cleaned_val)
        red == Subsuming(kept, cleaned_val)
    IN  IF sup \cup red = {}
        THEN {<<Append(final, val), kept \cup {cleaned_val}>>}
        ELSE {IF e \in sup
              THEN <<Append(final, val), SupersedeKept(kept, e, cleaned_val)>>
              ELSE <<final, kept>>
              : e \in sup \cup red}

RECURSIVE ReduceFrom(_, _, _, _)
ReduceFrom(vals, i, kept, final) ==
    IF i > Len(vals) THEN {<<final, kept>>}
    ELSE UNION {ReduceFrom(vals, i + 1, o[2], o[1]) : o \in ReduceStep(kept, final, vals[i])}

\* final_values_for_entity_creation, for every iteration order of the set
ReduceOutcomes(values) ==
    {o[1] : o \in ReduceFrom(SortByLenDesc(values), 1, {}, <<>>)}

\* ------------------------------------------------------------------ terms
Uri(t) == <<"uri", t, <<>>>>
Literal(t, dt) == <<"lit", t, dt>>

DRBER == <<"d", "#">>
RDF_type == Uri(<<"rdf:type">>)
RDFS_label == Uri(<<"rdfs:label">>)
OWL_Class == Uri(<<"owl:Class">>)
DRBER_code == Uri(DRBER \o <<"c", "o", "d", "e">>)
XSD_string == <<"xsd:string">>
XSD_anyURI == <<"xsd:anyURI">>
RelatedEntityTag == DRBER \o <<"R">>

\* type_uri.split('#')[-1]
LastPiece(s) == LET pieces == SplitRaw(s, "#", <<>>) IN pieces[Len(pieces)]

ClassSegment(type_uri) == clean_uri_segment(Lower(LastPiece(type_uri)))

\* URIRef(f"{DRBER}{class segment}/{id segment}")
NodeUri(type_uri, id_value) ==
    Uri(DRBER \o ClassSegment(type_uri) \o <<"/">> \o clean_uri_segment(id_value))

\* the id segment of a node URI: what follows the last '/'
RECURSIVE AfterLastSlash(_)
AfterLastSlash(t) ==
    IF \E i \in 1..Len(t) : t[i] = "/"
    THEN AfterLastSlash(Tail(t)) ELSE t

\* str(n) of a row index
RECURSIVE NatToStr(_)
NatToStr(n) ==
    LET d == <<"0", "1", "2", "3", "4", "5", "6", "7", "8", "9">>
    IN  IF n < 10 THEN <<d[n + 1]>> ELSE NatToStr(n \div 10) \o <<d[(n % 10) + 1]>>

\* str(cell): a null cell (NaN) prints as "nan"
Str(cell) == IF cell = NULL THEN <<"n", "a", "n">> ELSE cell

\* row.get(col)
RowGet(r, col) == IF col \in DOMAIN r THEN r[col] ELSE NULL

\* ------------------------------------------------------------- main record
\* as MainIdIsBlank, without the strip
MainIdIsBlankNoStrip(v) == v = NULL \/ Str(v) = <<>>

\* pd.isna(main_id_value) or str(main_id_value).strip() == ""
MainIdIsBlank(v) == v = NULL \/ StripChars(Str(v), Whitespace) = <<>>

RecordPrefix == <<"r", "e", "c", "o", "r", "d", "_">>

\* main_id_value of the row at position idx
MainIdValue(r, id_col, idx) ==
    LET v == RowGet(r, id_col)
    IN  IF MainIdIsBlank(v) THEN RecordPrefix \o NatToStr(idx) ELSE v

\* the mappings whose applies_to_entity is (not) "main_entity", in mapping order
MainEntityMappings(c) ==
    SelectSeq(c.column_rdf_mappings, LAMBDA m : m.applies_to_entity = "main_entity")

\* as RelatedEntityMappings, but for one pass over the columns in mapping
\* order: a dependent column is served only if its target comes before it
RelatedEntityMappingsInOrder(c) ==
    LET at(col) == CHOOSE i \in 1..Len(c.column_rdf_mappings) :
                       c.column_rdf_mappings[i].col = col
    IN  SelectSeq(c.column_rdf_mappings,
                  LAMBDA m : /\ m.applies_to_entity # "main_entity"
                             /\ \E i \in 1..Len(c.column_rdf_mappings) :
                                   /\ c.column_rdf_mappings[i].col = m.applies_to_entity
                                   /\ i < at(m.col))

\* related_entity_mappings: the columns that apply to another column
RelatedEntityMappings(c) ==
    SelectSeq(c.column_rdf_mappings, LAMBDA m : m.applies_to_entity # "main_entity")

\* ------------------------------------------------------ main-entity pass
IsMultivaluedIdCol(c, col) == \E d \in c.multivalued_delimiters : d[1] = col

DelimiterOf(c, col) == (CHOOSE d \in c.multivalued_delimiters : d[1] = col)[2]

\* related_id_value_for_uri for the value at (1-based) position j of the
\* values being processed
RelatedIdValue(c, r, m, j, value) ==
    LET id_col == m.related_entity_id_col
    IN  IF id_col # "" /\ id_col # m.col
        THEN IF id_col \in DOMAIN r /\ r[id_col] # NULL
             THEN LET raw_id_col_value == Str(r[id_col])
                  IN  IF IsMultivaluedIdCol(c, id_col)
                      THEN LET split_related_id_values ==
                                   SplitStripped(raw_id_col_value, DelimiterOf(c, id_col))
                           IN  IF j <= Len(split_related_id_values)
                               THEN split_related_id_values[j]
                               ELSE value
                      ELSE raw_id_col_value
             ELSE value
        ELSE value

\* as RelatedTypeUri, without the fallback for a missing class
RelatedTypeUriAsConfigured(m) == m.related_entity_type_uri

\* if not related_entity_type_uri_str: the generic related-entity class
RelatedTypeUri(m) ==
    IF m.related_entity_type_uri = <<>> THEN RelatedEntityTag
    ELSE m.related_entity_type_uri

\* as ClassDeclaration, but the class is named by its lower-cased segment
ClassDeclarationBySegment(type_str) ==
    <<Uri(DRBER \o ClassSegment(type_str)), RDF_type, OWL_Class>>

\* g.add((type_ref, RDF.type, OWL.Class))
ClassDeclaration(type_str) == <<Uri(type_str), RDF_type, OWL_Class>>

\* as NotInGlobalCache, but every reference counts as the first
NotInGlobalCacheAlwaysNew(cache_, type_str, uri) == TRUE

\* as NotInGlobalCache, but no reference counts as the first
NotInGlobalCacheNeverNew(cache_, type_str, uri) == FALSE

\* whether the entity is still to be created: the global cache lookup
NotInGlobalCache(cache_, type_str, uri) == <<type_str, uri>> \notin cache_

\* The loop over the retained values of an object-property cell, from
\* position j on.  S = [g, cache, added, gen, used].
RECURSIVE ObjectValues(_, _, _, _, _, _, _)
ObjectValues(S, c, r, main, m, vals, j) ==
    IF j > Len(vals) THEN S
    ELSE LET value == vals[j]
             type_str == RelatedTypeUri(m)
             type_ref == Uri(type_str)
             id_value == RelatedIdValue(c, r, m, j, value)
             uri == NodeUri(type_str, id_value)
             fresh == IF NotInGlobalCache(S.cache, type_str, uri)
                      THEN {<<uri, RDF_type, type_ref>>,
                            <<uri, RDFS_label, Literal(id_value, <<>>)>>}
                      ELSE {}
             adds == {ClassDeclaration(type_str)} \cup fresh
                        \cup {<<main, Uri(m.prop_uri), uri>>}
         IN  ObjectValues([g |-> S.g \cup adds,
                           cache |-> S.cache \cup {<<type_str, uri>>},
                           added |-> S.added \cup adds,
                           gen |-> Append(S.gen, uri),
                           used |-> Append(S.used, id_value)],
                          c, r, main, m, vals, j + 1)

\* the cell is skipped: col_name not in row or pd.isna(row[col_name])
CellAbsent(r, col) == col \notin DOMAIN r \/ r[col] = NULL

\* values_to_process before the reduction
SourceValues(r, m) == split_values(Str(r[m.col]), m.is_multivalued, m.delimiter)

\* The retained values an object-property cell can be reduced to
FinalValueChoices(r, m) ==
    IF ~CellAbsent(r, m.col) /\ m.mapping_type = "object_property"
    THEN ReduceOutcomes(SourceValues(r, m))
    ELSE {<<>>}

\* as LiteralTriples, but the literals are left without a datatype
LiteralTriplesPlain(main, m, values) ==
    {<<main, Uri(m.prop_uri), Literal(values[i], <<>>)>> : i \in 1..Len(values)}

\* the literal branch of the loop over values_to_process
LiteralTriples(main, m, values) ==
    {<<main, Uri(m.prop_uri), Literal(values[i], m.datatype)>> : i \in 1..Len(values)}

\* One main-entity column of one row.  R = [g, cache, rowc]; final is the
\* outcome of the reduction (object-property columns only).
MainColumnRun(R, c, r, main, m, final) ==
    LET S0 == [g |-> R.g, cache |-> R.cache, added |-> {}, gen |-> <<>>, used |-> <<>>]
        S == IF CellAbsent(r, m.col) THEN S0
             ELSE IF m.mapping_type = "literal"
             THEN LET adds == LiteralTriples(main, m, SourceValues(r, m))
                  IN  [S0 EXCEPT !.g = @ \cup adds, !.added = adds]
             ELSE ObjectValues(S0, c, r, main, m, final, 1)
    IN  [g |-> S.g, cache |-> S.cache,
         rowc |-> IF S.gen # <<>> THEN [R.rowc EXCEPT ![m.col] = S.gen] ELSE R.rowc,
         added |-> S.added, used |-> S.used, gen |-> S.gen]

\* --------------------------------------------------- related-entity pass
\* re.match(r'^[A-Z0-9]{5,}$', v): without re.MULTILINE, $ matches at the
\* end of the string and also just before a newline that ends it
IsCode(v) ==
    LET body == IF v # <<>> /\ v[Len(v)] = "\n" THEN SubSeq(v, 1, Len(v) - 1) ELSE v
    IN  Len(body) >= 5 /\ \A i \in 1..Len(body) : body[i] \in Uppercase \cup Digits

\* the literal and, by the code heuristic, the drber:code triple
Attach(target, m, v) ==
    {<<target, Uri(m.prop_uri), Literal(v, m.datatype)>>}
        \cup (IF IsCode(v) THEN {<<target, DRBER_code, Literal(v, <<>>)>>} ELSE {})

\* applies_to_col_name in current_row_entities_cache
TargetProduced(rowc_, col) == col \in DOMAIN rowc_ /\ rowc_[col] # <<>>

\* as DependentTriples, but a single value goes to the first target only
DependentTriplesNoBroadcast(values, targets, m) ==
    UNION {Attach(targets[i], m, values[i])
           : i \in {k \in 1..Len(targets) : k <= Len(values) /\ values[k] # <<>>}}

\* as DependentTriples, but the targets left over get the last value
DependentTriplesPadded(values, targets, m) ==
    IF Len(values) = 0 THEN {}
    ELSE UNION {Attach(targets[i], m,
                       values[IF i <= Len(values) THEN i ELSE Len(values)])
                : i \in {k \in 1..Len(targets) :
                            Len(values) = Len(targets) => values[k] # <<>>}}

\* the triples a dependent column adds for its targets
DependentTriples(values, targets, m) ==
    IF Len(values) # Len(targets) /\ Len(values) > 0
    THEN IF Len(values) = 1
         THEN UNION {Attach(targets[i], m, values[1]) : i \in 1..Len(targets)}
         ELSE UNION {Attach(targets[i], m, values[i])
                     : i \in {k \in 1..Len(targets) : k <= Len(values)}}
    ELSE UNION {Attach(targets[i], m, values[i])
                : i \in {k \in 1..Len(targets) : k <= Len(values) /\ values[k] # <<>>}}

\* One related-entity column of one row.
RelatedColumnRun(R, r, m) ==
    LET adds == IF TargetProduced(R.rowc, m.applies_to_entity)
                THEN DependentTriples(SourceValues(r, m),
                                      R.rowc[m.applies_to_entity], m)
                ELSE {}
    IN  [g |-> R.g \cup adds, cache |-> R.cache, rowc |-> R.rowc,
         added |-> adds, used |-> <<>>, gen |-> <<>>]

\* ------------------------------------------------------------------ inputs
TableCols == {"ID", "A", "B", "K", "D", "L"}

ClassP == <<"n", "#", "P">>
\* another namespace, the same local name
ClassP2 == <<"m", "#", "P">>
ClassQ == <<"n", "#", "Q">>

Mapping(col, kind, multi, tag, id_col, applies) ==
    [col |-> col, prop_uri |-> <<"p:", col>>, mapping_type |-> kind,
     datatype |-> XSD_string, is_multivalued |-> multi, delimiter |-> ";",
     related_entity_type_uri |-> tag, related_entity_id_col |-> id_col,
     applies_to_entity |-> applies]

NoCells == [ID |-> {NULL}, A |-> {NULL}, B |-> {NULL}, K |-> {NULL},
            D |-> {NULL}, L |-> {NULL}]

\* Main ids: the id column varies, one object column of the main class
CfgIds ==
    [name |-> "ids", main_entity_type_uri |-> ClassP, main_entity_id_col |-> "ID",
     multivalued_delimiters |-> {},
     column_rdf_mappings |->
        <<Mapping("A", "object_property", FALSE, ClassP, "", "main_entity")>>,
     cells |-> [NoCells EXCEPT
        !.ID = {NULL, <<>>, <<" ">>, <<"x", " ", "y">>, <<"x", "_", "y">>,
                <<"r", "e", "c", "o", "r", "d", "_", "1">>},
        !.A = {NULL, <<"x", "_", "y">>}]]

\* Two object columns whose class tags share the local name
CfgDedup ==
    [name |-> "dedup", main_entity_type_uri |-> ClassQ, main_entity_id_col |-> "NOCOL",
     multivalued_delimiters |-> {},
     column_rdf_mappings |->
        <<Mapping("A", "object_property", TRUE, ClassP, "", "main_entity"),
          Mapping("B", "object_property", FALSE, ClassP2, "", "main_entity")>>,
     cells |-> [NoCells EXCEPT
        !.A = {NULL, <<"x", " ", "y">>, <<"x", "_", "y">>, <<"x", " ", "y", ";", "z">>},
        !.B = {NULL, <<"x", "_", "y">>, <<"z">>}]]

\* An object column with an identifier column, multi-valued or not
CfgIdCol(id_multi) ==
    [name |-> "idcol", main_entity_type_uri |-> ClassQ, main_entity_id_col |-> "NOCOL",
     multivalued_delimiters |-> IF id_multi THEN {<<"K", ";">>} ELSE {},
     column_rdf_mappings |->
        <<Mapping("A", "object_property", TRUE, ClassP, "K", "main_entity")>>,
     cells |-> [NoCells EXCEPT
        !.A = {NULL, <<"a", ";", "b", "c", "d">>, <<"a">>},
        !.K = {NULL, <<"1", ";", "2">>, <<"1">>, <<" ">>}]]

\* A multi-valued object column with overlapping composite identifiers
CfgReduce ==
    [name |-> "reduce", main_entity_type_uri |-> ClassQ, main_entity_id_col |-> "NOCOL",
     multivalued_delimiters |-> {},
     column_rdf_mappings |->
        <<Mapping("A", "object_property", TRUE, ClassP, "", "main_entity")>>,
     cells |-> [NoCells EXCEPT
        !.A = {<<"a", "-", ";", "a", "b">>, <<"a", "b", ";", "a", "-">>,
               <<"a", "-", "-", ";", "a", "b", "c", ";", "a", "b">>,
               <<"s", ";", "s", "_", "9">>, <<"a", ";", "a">>,
               <<"a", "b", ";", "c", ";", "a">>}]]

\* An object column and a literal column that applies to its entities
CfgDep(dep_multi, dep_first) ==
    LET a == Mapping("A", "object_property", TRUE, ClassP, "", "main_entity")
        d == [Mapping("D", "literal", dep_multi, <<>>, "", "A")
                EXCEPT !.datatype = XSD_anyURI]
    IN  [name |-> "dep", main_entity_type_uri |-> ClassQ, main_entity_id_col |-> "NOCOL",
         multivalued_delimiters |-> {},
         column_rdf_mappings |-> IF dep_first THEN <<d, a>> ELSE <<a, d>>,
         cells |-> [NoCells EXCEPT
            !.A = {NULL, <<"a", ";", "b">>, <<" ", ";">>, <<"c">>},
            !.D = {NULL, <<"v">>, <<"v", ";", "w">>}]]

\* A dependent column whose cells look, or nearly look, like codes
CfgCode(dep_multi) ==
    LET a == Mapping("A", "object_property", TRUE, ClassP, "", "main_entity")
        d == Mapping("D", "literal", dep_multi, <<>>, "", "A")
    IN  [name |-> "code", main_entity_type_uri |-> ClassQ, main_entity_id_col |-> "NOCOL",
         multivalued_delimiters |-> {},
         column_rdf_mappings |-> <<a, d>>,
         cells |-> [NoCells EXCEPT
            !.A = {<<"a">>, <<"a", ";", "b">>},
            !.D = {<<"A", "B", "C", "D", "E">>, <<"A", "B", "C", "D">>,
                   <<"A", "B", "C", "D", "E", "\n">>,
                   <<"A", "B", "C", "D", "9", ";", "v">>,
                   <<"v", ";", "A", "B", "C", "D", "E">>}]]

\* A dependent column with fewer, as many or more values than its target
\* has entities, and with an empty cell
CfgZip(dep_multi) ==
    LET a == Mapping("A", "object_property", TRUE, ClassP, "", "main_entity")
        d == [Mapping("D", "literal", dep_multi, <<>>, "", "A")
                EXCEPT !.datatype = XSD_anyURI]
    IN  [name |-> "zip", main_entity_type_uri |-> ClassQ, main_entity_id_col |-> "NOCOL",
         multivalued_delimiters |-> {},
         column_rdf_mappings |-> <<a, d>>,
         cells |-> [NoCells EXCEPT
            !.A = {<<"c">>, <<"a", ";", "b", ";", "c">>, <<"a", ";", "b", "c", "d">>},
            !.D = {<<>>, <<"v", ";", "w">>, <<"v", ";", " ", "w", ";", "u">>}]]

\* A literal column of the main entity
CfgLit(multi) ==
    [name |-> "lit", main_entity_type_uri |-> ClassQ, main_entity_id_col |-> "NOCOL",
     multivalued_delimiters |-> {},
     column_rdf_mappings |->
        <<[Mapping("L", "literal", multi, <<>>, "", "main_entity")
              EXCEPT !.datatype = XSD_anyURI]>>,
     cells |-> [NoCells EXCEPT
        !.L = {NULL, <<>>, <<"v">>, <<"v", ";", " ", "w">>, <<" ", ";">>,
               <<"v", ";", "v">>}]]

\* An object column configured without a related class
CfgNoTag ==
    [name |-> "notag", main_entity_type_uri |-> ClassQ, main_entity_id_col |-> "NOCOL",
     multivalued_delimiters |-> {},
     column_rdf_mappings |->
        <<Mapping("A", "object_property", TRUE, <<>>, "", "main_entity"),
          Mapping("B", "object_property", FALSE, RelatedEntityTag, "", "main_entity")>>,
     cells |-> [NoCells EXCEPT
        !.A = {NULL, <<"a">>, <<"a", ";", "b">>},
        !.B = {NULL, <<"a">>}]]

Configs ==
    {CfgIds, CfgDedup, CfgReduce, CfgNoTag}
        \cup {CfgCode(b) : b \in BOOLEAN}
        \cup {CfgZip(b) : b \in BOOLEAN}
        \cup {CfgLit(b) : b \in BOOLEAN}
        \cup {CfgIdCol(b) : b \in BOOLEAN}
        \cup {CfgDep(b1, b2) : b1 \in BOOLEAN, b2 \in BOOLEAN}

\* The rows a table of the configuration is made of: the code reads only
\* the columns the configuration names, the others are left null.
Rows(c) ==
    [ID : c.cells.ID, A : c.cells.A, B : c.cells.B, K : c.cells.K,
     D : c.cells.D, L : c.cells.L]

\* ------------------------------------------------------------------- state
NoRow == [c \in TableCols |-> NULL]
EmptyRowCache == [c \in TableCols |-> <<>>]
NoUri == Uri(<<>>)

\* as FreshRowCache, but the cache of the previous row is kept
StaleRowCache(previous) == previous

\* current_row_entities_cache = {} at the top of the row loop

FreshRowCache(previous) == EmptyRowCache

NoStep == [op |-> "none", col |-> "", src |-> <<>>, final |-> <<>>,
           used |-> <<>>, added |-> {}]

Init ==
    /\ pc = "start"
    /\ cfg \in Configs
    /\ index = 0
    /\ row = NoRow
    /\ g = {}
    /\ cache = {}
    /\ rowc = EmptyRowCache
    /\ main_uri = NoUri
    /\ todo = <<>>
    /\ second = [g |-> {}, cache |-> {}, rowc |-> EmptyRowCache]
    /\ last = NoStep
    /\ hist = <<>>
    /\ refs = {}
    /\ pin = <<>>
    /\ pout = <<>>

\* where the row loop goes after a column: the rest of the main-entity
\* pass, then the related-entity pass, then the next row
AfterMainPass(c, rest) ==
    IF rest # <<>> THEN [pc |-> "main", todo |-> rest, step |-> 0]
    ELSE IF RelatedEntityMappings(c) # <<>>
    THEN [pc |-> "related", todo |-> RelatedEntityMappings(c), step |-> 0]
    ELSE [pc |-> "rows", todo |-> <<>>, step |-> 1]

AfterRelatedPass(rest) ==
    IF rest # <<>> THEN [pc |-> "related", todo |-> rest, step |-> 0]
    ELSE [pc |-> "rows", todo |-> <<>>, step |-> 1]

\* g = Graph(); the main class is declared
Setup ==
    /\ pc = "start"
    /\ LET decl == {ClassDeclaration(cfg.main_entity_type_uri)}
       IN  /\ g' = g \cup decl
           /\ second' = [second EXCEPT !.g = @ \cup decl]
           /\ last' = [NoStep EXCEPT !.op = "setup", !.added = decl]
    /\ pc' = "rows"
    /\ UNCHANGED <<cfg, index, row, cache, rowc, main_uri, todo, hist, refs, pin, pout>>

\* the next row of the table: its main node, an empty row-local cache
BeginRow ==
    /\ pc = "rows"
    /\ index < MaxRows
    /\ \E r \in Rows(cfg) :
         LET main_id_value == MainIdValue(r, cfg.main_entity_id_col, index)
             uri == NodeUri(cfg.main_entity_type_uri, Str(main_id_value))
             adds == {<<uri, RDF_type, Uri(cfg.main_entity_type_uri)>>,
                      <<uri, RDFS_label, Literal(Str(main_id_value), <<>>)>>}
             nxt == AfterMainPass(cfg, MainEntityMappings(cfg))
         IN  /\ row' = r
             /\ main_uri' = uri
             /\ g' = g \cup adds
             /\ second' = [second EXCEPT !.g = @ \cup adds, !.rowc = FreshRowCache(@)]
             /\ rowc' = FreshRowCache(rowc)
             /\ hist' = Append(hist, [row |-> r, main_uri |-> uri,
                                      main_id_value |-> main_id_value])
             /\ last' = [NoStep EXCEPT !.op = "begin", !.added = adds]
             /\ pc' = nxt.pc
             /\ todo' = nxt.todo
             /\ index' = index + nxt.step
    /\ UNCHANGED <<cfg, cache, refs, pin, pout>>

\* one column of the main-entity pass, in both runs
MainColumn ==
    /\ pc = "main"
    /\ LET m == Head(todo)
           nxt == AfterMainPass(cfg, Tail(todo))
       IN  \E final \in FinalValueChoices(row, m), final2 \in FinalValueChoices(row, m) :
             LET R == MainColumnRun([g |-> g, cache |-> cache, rowc |-> rowc],
                                    cfg, row, main_uri, m, final)
                 R2 == MainColumnRun(second, cfg, row, main_uri, m, final2)
             IN  /\ g' = R.g
                 /\ cache' = R.cache
                 /\ rowc' = R.rowc
                 /\ second' = [g |-> R2.g, cache |-> R2.cache, rowc |-> R2.rowc]
                 /\ last' = [op |-> "main", col |-> m.col,
                             src |-> IF CellAbsent(row, m.col) THEN <<>>
                                     ELSE SourceValues(row, m),
                             final |-> final, used |-> R.used, added |-> R.added]
                 /\ refs' = refs \cup {[tag |-> RelatedTypeUri(m), disc |-> R.used[i],
                                         uri |-> R.gen[i]] : i \in 1..Len(R.gen)}
                 /\ pc' = nxt.pc
                 /\ todo' = nxt.todo
                 /\ index' = index + nxt.step
    /\ UNCHANGED <<cfg, row, main_uri, hist, pin, pout>>

\* one column of the related-entity pass, in both runs
RelatedColumn ==
    /\ pc = "related"
    /\ LET m == Head(todo)
           nxt == AfterRelatedPass(Tail(todo))
           R == RelatedColumnRun([g |-> g, cache |-> cache, rowc |-> rowc], row, m)
           R2 == RelatedColumnRun(second, row, m)
       IN  /\ g' = R.g
           /\ second' = [second EXCEPT !.g = R2.g]
           /\ last' = [op |-> "related", col |-> m.col,
                       src |-> SourceValues(row, m), final |-> <<>>,
                       used |-> <<>>, added |-> R.added]
           /\ pc' = nxt.pc
           /\ todo' = nxt.todo
           /\ index' = index + nxt.step
    /\ UNCHANGED <<cfg, row, cache, rowc, main_uri, hist, refs, pin, pout>>

\* the table has no more rows: return g
Finish ==
    /\ pc = "rows"
    /\ pc' = "done"
    /\ last' = NoStep
    /\ UNCHANGED <<cfg, index, row, g, cache, rowc, main_uri, todo, second, hist,
                   refs, pin, pout>>

Next == Setup \/ BeginRow \/ MainColumn \/ RelatedColumn \/ Finish

Spec == Init /\ [][Next]_vars

\* ------------------------------------------- the sanitizer on its own
CleanAlphabet == {"a", "_", "-", " ", "."}

Texts(alphabet, n) == UNION {[1..k -> alphabet] : k \in 0..n}

\* the variables of the conversion, at rest
ConversionIdle ==
    /\ cfg = CfgReduce
    /\ index = 0
    /\ row = NoRow
    /\ g = {}
    /\ cache = {}
    /\ rowc = EmptyRowCache
    /\ main_uri = NoUri
    /\ todo = <<>>
    /\ second = [g |-> {}, cache |-> {}, rowc |-> EmptyRowCache]
    /\ last = NoStep
    /\ hist = <<>>
    /\ refs = {}

conversion_vars == <<cfg, index, row, g, cache, rowc, main_uri, todo, second, last,
                     hist, refs>>

InitClean ==
    /\ pc = "clean0"
    /\ pin \in Texts(CleanAlphabet, MaxSegLen)
    /\ pout = <<>>
    /\ ConversionIdle

\* clean_uri_segment(x)
CleanOnce ==
    /\ pc = "clean0"
    /\ pout' = <<clean_uri_segment(pin)>>
    /\ pc' = "clean1"
    /\ UNCHANGED <<conversion_vars, pin>>

\* clean_uri_segment(clean_uri_segment(x))
CleanAgain ==
    /\ pc = "clean1"
    /\ pout' = Append(pout, clean_uri_segment(pout[1]))
    /\ pc' = "clean2"
    /\ UNCHANGED <<conversion_vars, pin>>

NextClean == CleanOnce \/ CleanAgain

SpecClean == InitClean /\ [][NextClean]_vars

\* --------------------------------------------- the reducer on its own
ValueAlphabet == {"a", "-"}

\* what a split can yield: non-empty, no surrounding whitespace; one value
\* more, so that two values can extend a third in different ways
CellValues == (Texts(ValueAlphabet, MaxValLen) \ {<<>>}) \cup {<<"a", "b">>}

InitReduce ==
    /\ pc = "reduce0"
    /\ pin \in UNION {[1..k -> CellValues] : k \in 0..MaxVals}
    /\ pout = <<>>
    /\ ConversionIdle

\* values_to_process.sort(key=len, reverse=True); processed_sub_values = set()
SortValues ==
    /\ pc = "reduce0"
    /\ pout' = [sorted |-> SortByLenDesc(pin), i |-> 1, final |-> <<>>, kept |-> {},
                dropped |-> <<>>]
    /\ pc' = IF pin = <<>> THEN "reduce2" ELSE "reduce1"
    /\ UNCHANGED <<conversion_vars, pin>>

\* one candidate of the reduction loop
ReduceCandidate ==
    /\ pc = "reduce1"
    /\ \E o \in ReduceStep(pout.kept, pout.final, pout.sorted[pout.i]) :
         pout' = [pout EXCEPT !.i = @ + 1, !.final = o[1], !.kept = o[2],
                              !.dropped = IF o[1] = pout.final
                                          THEN Append(@, pout.sorted[pout.i]) ELSE @]
    /\ pc' = IF pout.i = Len(pout.sorted) THEN "reduce2" ELSE "reduce1"
    /\ UNCHANGED <<conversion_vars, pin>>

NextReduce == SortValues \/ ReduceCandidate

SpecReduce == InitReduce /\ [][NextReduce]_vars

\* ------------------------------------------- the splitting on its own
CellAlphabet == {"a", "b", " ", ";"}

InitSplit ==
    /\ pc = "split0"
    /\ pin \in [raw_value : Texts(CellAlphabet, MaxCellLen), is_multivalued : BOOLEAN]
    /\ pout = <<>>
    /\ ConversionIdle

\* values_to_process of a cell, as both passes compute it
SplitCell ==
    /\ pc = "split0"
    /\ pout' = split_values(pin.raw_value, pin.is_multivalued, ";")
    /\ pc' = "split1"
    /\ UNCHANGED <<conversion_vars, pin>>

NextSplit == SplitCell

SpecSplit == InitSplit /\ [][NextSplit]_vars

\* ------------------------------------- the application's generate action
\* the placeholder of the main-id selector
NoSelection == "-- Seleccionar --"

\* as IsBlankUri, but a text of white space only passes
IsBlankUriNoStrip(text) == text = <<>>

\* not text.strip()
IsBlankUri(text) == StripChars(text, Whitespace) = <<>>

\* startswith("http://") or startswith("https://") or ":" in text: both
\* prefixes hold a colon, so the test is that of the colon
LooksLikeUri(text) == \E i \in 1..Len(text) : text[i] = ":"

\* what the user can leave in a URI field
FormPropUris == {<<>>, <<" ">>, <<"p", ":", "x">>, <<"x">>}
FormClassUris == {<<>>, <<" ">>, ClassP}

\* the mappings the form can hold for a column that is mapped
FormMappings(col) ==
    {[Mapping(col, "literal", FALSE, <<>>, "", "main_entity") EXCEPT !.prop_uri = p]
        : p \in FormPropUris}
    \cup {[Mapping(col, "object_property", FALSE, tag, "", "main_entity")
              EXCEPT !.prop_uri = p] : p \in FormPropUris, tag \in FormClassUris}

\* final_column_rdf_mappings: the mapped columns, in table order
FormColumns == <<"A", "B", "K", "D", "L">>

FormMappingLists ==
    UNION {{f \in [1..n -> UNION {FormMappings(FormColumns[i]) : i \in 1..n}] :
               \A i \in 1..n : f[i].col = FormColumns[i]} : n \in 0..MaxMappings}

Forms ==
    [name : {"form"},
     main_entity_type_uri : {<<>>, <<" ">>, ClassQ},
     main_entity_id_col : {NoSelection, "ID"},
     multivalued_delimiters : {{}},
     column_rdf_mappings : FormMappingLists,
     cells : {NoCells}]

Message(kind, about) == [kind |-> kind, about |-> about]

\* the page is drawn, the form filled in, nothing generated yet
InitApp ==
    /\ pc = "form"
    /\ cfg \in Forms
    /\ index = 0
    /\ row = NoRow
    /\ g = {}
    /\ cache = {}
    /\ rowc = EmptyRowCache
    /\ main_uri = NoUri
    /\ todo = <<>>
    /\ second = [g |-> {}, cache |-> {}, rowc |-> EmptyRowCache]
    /\ last = NoStep
    /\ hist = <<>>
    /\ refs = {}
    /\ pin = <<>>
    /\ pout = <<>>

\* the generate button is pressed
Generate ==
    /\ pc = "form"
    /\ pc' = "validating"
    /\ UNCHANGED <<conversion_vars, pin, pout>>

\* the checks of the main class and of the main-id column; the warning
\* for a form without mappings
ValidateMainEntity ==
    /\ pc = "validating"
    /\ IF IsBlankUri(cfg.main_entity_type_uri)
       THEN /\ pout' = Append(pout, Message("error", "main_entity_type_uri"))
            /\ pc' = "stopped"
            /\ todo' = todo
       ELSE IF cfg.main_entity_id_col = NoSelection
       THEN /\ pout' = Append(pout, Message("error", "main_entity_id_col"))
            /\ pc' = "stopped"
            /\ todo' = todo
       ELSE /\ pout' = IF cfg.column_rdf_mappings = <<>>
                       THEN Append(pout, Message("warning", "no mappings"))
                       ELSE pout
            /\ pc' = "mappings"
            /\ todo' = cfg.column_rdf_mappings
    /\ UNCHANGED <<cfg, index, row, g, cache, rowc, main_uri, second, last, hist,
                   refs, pin>>

\* the warnings of one mapping that passed its checks
MappingWarnings(mapping) ==
    (IF ~LooksLikeUri(mapping.prop_uri)
     THEN <<Message("warning", <<mapping.col, "prop_uri">>)>> ELSE <<>>)
    \o (IF mapping.mapping_type = "object_property"
              /\ ~LooksLikeUri(mapping.related_entity_type_uri)
        THEN <<Message("warning", <<mapping.col, "related_entity_type_uri">>)>>
        ELSE <<>>)

\* one iteration of the loop over final_column_rdf_mappings
ValidateMapping ==
    /\ pc = "mappings"
    /\ todo # <<>>
    /\ LET mapping == Head(todo)
       IN  IF IsBlankUri(mapping.prop_uri)
           THEN /\ pout' = Append(pout, Message("error", <<mapping.col, "prop_uri">>))
                /\ pc' = "stopped"
                /\ todo' = todo
           ELSE IF mapping.mapping_type = "object_property"
                      /\ IsBlankUri(mapping.related_entity_type_uri)
           THEN /\ pout' = Append(pout, Message("error",
                                       <<mapping.col, "related_entity_type_uri">>))
                /\ pc' = "stopped"
                /\ todo' = todo
           ELSE /\ pout' = pout \o MappingWarnings(mapping)
                /\ pc' = "mappings"
                /\ todo' = Tail(todo)
    /\ UNCHANGED <<cfg, index, row, g, cache, rowc, main_uri, second, last, hist,
                   refs, pin>>

\* g = convertir_dataframe_a_rdf(...): the conversion starts on the form's
\* values
Convert ==
    /\ pc = "mappings"
    /\ todo = <<>>
    /\ pc' = "start"
    /\ UNCHANGED <<conversion_vars, pin, pout>>

NextApp == Generate \/ ValidateMainEntity \/ ValidateMapping \/ Convert

SpecApp == InitApp /\ [][NextApp]_vars

\* ================================================================ claims
StrictPrefix(p, t) == StartsWith(t, p) /\ p # t

TypeTriples(node) == {t \in g : t[1] = node /\ t[2] = RDF_type}
LabelTriples(node) == {t \in g : t[1] = node /\ t[2] = RDFS_label}

MappingOf(col) ==
    CHOOSE m \in {cfg.column_rdf_mappings[i] : i \in 1..Len(cfg.column_rdf_mappings)} :
        m.col = col

IsMapped(col) ==
    \E i \in 1..Len(cfg.column_rdf_mappings) : cfg.column_rdf_mappings[i].col = col

\* C1: any two references to a related entity with the same class tag and
\* the same sanitized discriminator get the identical node id, and the
\* final graph holds exactly one type triple and exactly one label triple
\* for that node.
C1_Deduplication ==
    pc = "done" =>
        \A r1 \in refs, r2 \in refs :
            (r1.tag = r2.tag
                /\ clean_uri_segment(r1.disc) = clean_uri_segment(r2.disc))
            => /\ r1.uri = r2.uri
               /\ Cardinality(TypeTriples(r1.uri)) = 1
               /\ Cardinality(LabelTriples(r1.uri)) = 1

\* C2: in the returned graph every node, main-record or related-entity,
\* has exactly one type tag and at most one label triple.
C2_OneTypeOneLabel ==
    pc = "done" =>
        \A node \in {hist[i].main_uri : i \in 1..Len(hist)} \cup {r.uri : r \in refs} :
            /\ Cardinality(TypeTriples(node)) = 1
            /\ Cardinality(LabelTriples(node)) <= 1

\* the target column made no related entity in the current row: it is no
\* object-property column of the main-entity pass, or its cell is null,
\* absent or split to nothing
NoEntityFrom(target) ==
    \/ ~IsMapped(target)
    \/ MappingOf(target).mapping_type # "object_property"
    \/ MappingOf(target).applies_to_entity # "main_entity"
    \/ CellAbsent(row, target)
    \/ SourceValues(row, MappingOf(target)) = <<>>

\* C3: a property column that applies to a target column adds no triple for
\* a row in which the target column created no related entity, whatever its
\* own cell holds.
C3_NoDanglingAttachment ==
    (last.op = "related" /\ NoEntityFrom(MappingOf(last.col).applies_to_entity))
        => last.added = {}

C3_Witness ==
    /\ last.op = "related"
    /\ NoEntityFrom(MappingOf(last.col).applies_to_entity)
    /\ row[last.col] # NULL
    /\ Len(hist) = 2
    /\ ~CellAbsent(hist[1].row, MappingOf(last.col).applies_to_entity)
    /\ last.added = {}

\* C4: after the reduction no retained value has a sanitized form that is a
\* strict prefix of the sanitized form of another retained value.
C4_OnlyMostSpecific ==
    pc = "reduce2" =>
        \A i \in 1..Len(pout.final), j \in 1..Len(pout.final) :
            ~StrictPrefix(clean_uri_segment(pout.final[i]),
                          clean_uri_segment(pout.final[j]))

\* the values of the cell that are strictly longer than every other one
SingleLongest(values) ==
    {values[i] : i \in {k \in 1..Len(values) :
                          \A n \in 1..Len(values) : n # k => Len(values[n]) < Len(values[k])}}

C6_Idempotent == pc = "clean2" => pout[2] = pout[1]

\* the kept sets the loop can hold before the candidate at position i
KeptBefore(sorted, i) == {o[2] : o \in ReduceFrom(SubSeq(sorted, 1, i - 1), 1, {}, <<>>)}

\* the loop went over a kept set of several forms, one of which decided
IteratedSeveral(values) ==
    LET sorted == SortByLenDesc(values)
    IN  \E i \in 1..Len(sorted) : \E kept \in KeptBefore(sorted, i) :
            /\ Cardinality(kept) >= 2
            /\ Superseded(kept, clean_uri_segment(sorted[i]))
                  \cup Subsuming(kept, clean_uri_segment(sorted[i])) # {}

\* C7: two runs on the same table and configuration return the same triple
\* set, whatever the order in which the set of kept forms is iterated.
C7_Determinism == pc = "done" => g = second.g

C7_Witness ==
    /\ pc = "done"
    /\ g = second.g
    /\ \E i \in 1..Len(hist) :
          /\ hist[i].row.A # NULL
          /\ IsMapped("A") /\ MappingOf("A").mapping_type = "object_property"
          /\ IteratedSeveral(SourceValues(hist[i].row, MappingOf("A")))

\* the main-id column is missing, null or blank after trimming
BlankId(r) ==
    LET v == RowGet(r, cfg.main_entity_id_col)
    IN  v = NULL \/ \A k \in 1..Len(v) : v[k] \in Whitespace

\* C8: the discriminator segment of the main node of the row at position i
\* is record_<i> when the main-id column is missing, null or blank after
\* trimming, and the sanitized value of the column otherwise.
C8_FallbackId ==
    \A i \in 1..Len(hist) :
        AfterLastSlash(hist[i].main_uri[2]) =
            IF BlankId(hist[i].row)
            THEN <<"r", "e", "c", "o", "r", "d", "_">> \o NatToStr(i - 1)
            ELSE clean_uri_segment(hist[i].row[cfg.main_entity_id_col])

C8_Witness ==
    /\ Len(hist) = 2
    /\ cfg.main_entity_id_col = "ID"
    /\ hist[1].row.ID = <<"x", " ", "y">>
    /\ hist[2].row.ID = <<" ">>
    /\ AfterLastSlash(hist[2].main_uri[2]) = <<"r", "e", "c", "o", "r", "d", "_", "1">>
    /\ AfterLastSlash(hist[1].main_uri[2]) = <<"x", "_", "y">>

\* C9: no two distinct rows of the table yield the same main node id.
C9_FreshMainNodes ==
    \A i \in 1..Len(hist), j \in 1..Len(hist) :
        i # j => hist[i].main_uri # hist[j].main_uri

\* C10: with a multi-valued identifier column other than the object column,
\* the discriminator of the value at position k of the source cell is the
\* value at position k of the identifier column's split, and the source
\* value itself when that split has no position k.  (Stated for cells of
\* distinct values none of which is discarded.)
C10_PositionalIdentifier ==
    (/\ last.op = "main"
     /\ MappingOf(last.col).mapping_type = "object_property"
     /\ MappingOf(last.col).related_entity_id_col \notin {"", last.col}
     /\ IsMultivaluedIdCol(cfg, MappingOf(last.col).related_entity_id_col)
     /\ ~CellAbsent(row, last.col)
     /\ ~CellAbsent(row, MappingOf(last.col).related_entity_id_col)
     /\ Cardinality({last.src[k] : k \in 1..Len(last.src)}) = Len(last.src)
     /\ Len(last.final) = Len(last.src))
    => LET id_col == MappingOf(last.col).related_entity_id_col
           ids == SplitStripped(row[id_col], DelimiterOf(cfg, id_col))
       IN  \A k \in 1..Len(last.src), j \in 1..Len(last.final) :
              last.final[j] = last.src[k]
              => last.used[j] = IF k <= Len(ids) THEN ids[k] ELSE last.src[k]

\* the cell is missing, null, empty or made of whitespace only
BlankCell(r, col) ==
    \/ col \notin DOMAIN r
    \/ r[col] = NULL
    \/ \A k \in 1..Len(r[col]) : r[col][k] \in Whitespace

\* C11: when the identifier column of an object-property column is missing,
\* null or blank in a row, multi-valued or not, the discriminator of every
\* related entity of that column is the column's own value.
C11_BlankIdentifierFallback ==
    (/\ last.op = "main"
     /\ MappingOf(last.col).mapping_type = "object_property"
     /\ MappingOf(last.col).related_entity_id_col \notin {"", last.col}
     /\ BlankCell(row, MappingOf(last.col).related_entity_id_col))
    => \A j \in 1..Len(last.final) :
          /\ last.used[j] = last.final[j]
          /\ last.used[j] # <<>>

\* C12: a dependent column whose cell yields exactly one value, in a row
\* where its target column produced more than one related node, attaches
\* that value, with the declared datatype, to every one of those nodes.
C12_BroadcastLiteral ==
    (/\ last.op = "related"
     /\ Len(last.src) = 1
     /\ Len(rowc[MappingOf(last.col).applies_to_entity]) > 1)
    => LET m == MappingOf(last.col)
           targets == rowc[m.applies_to_entity]
       IN  \A i \in 1..Len(targets) :
              <<targets[i], Uri(m.prop_uri), Literal(last.src[1], m.datatype)>>
                  \in last.added

C12_Witness ==
    /\ last.op = "related"
    /\ last.col = "D"
    /\ row.A = <<"a", ";", "b">>
    /\ last.src = <<<<"v">>>>
    /\ {<<NodeUri(ClassP, <<"a">>), Uri(<<"p:", "D">>), Literal(<<"v">>, XSD_anyURI)>>,
        <<NodeUri(ClassP, <<"b">>), Uri(<<"p:", "D">>), Literal(<<"v">>, XSD_anyURI)>>}
           \subseteq last.added

\* v is made of upper-case letters and digits only, five or more of them
CodeShaped(v) == Len(v) >= 5 /\ \A i \in 1..Len(v) : v[i] \in Uppercase \cup Digits

\* C13: in a step of the related-entity pass, the triple (target, code, v)
\* is added if and only if the literal v was attached to that target in the
\* same step and v is made of upper-case letters and digits only, at least
\* five of them.
C13_CodeHeuristic ==
    last.op = "related" =>
        LET m == MappingOf(last.col)
        IN  \A n \in {t[1] : t \in last.added}, v \in {t[3][2] : t \in last.added} :
               (<<n, DRBER_code, Literal(v, <<>>)>> \in last.added)
                   <=> (/\ <<n, Uri(m.prop_uri), Literal(v, m.datatype)>> \in last.added
                        /\ CodeShaped(v))

\* C14: a dependent column whose cell is null, in a row where its target
\* column produced entities, attaches nothing to any of them.
C14_NullDependentCell ==
    (/\ last.op = "related"
     /\ row[last.col] = NULL
     /\ ~NoEntityFrom(MappingOf(last.col).applies_to_entity))
    => last.added = {}

\* C16: the sanitizer's result is never empty and neither begins nor ends
\* with '_' or '-'.
C16_CleanEdges ==
    pc \in {"clean1", "clean2"} =>
        /\ pout[1] # <<>>
        /\ pout[1][1] \notin {"_", "-"}
        /\ pout[1][Len(pout[1])] \notin {"_", "-"}

\* the class tags declared as classes, and those some node is typed with
DeclaredTags == {t[1][2] : t \in {x \in g : x[2] = RDF_type /\ x[3] = OWL_Class}}
NodeTags == {t[3][2] : t \in {x \in g : x[2] = RDF_type /\ x[3] # OWL_Class}}

\* C17: in every state a class tag is declared as a class if and only if a
\* node of that type has been created, the main class included.
C17_DeclaredIffNode == DeclaredTags = NodeTags

\* C17, amended: the main class is declared before the first row; every
\* other class tag is declared, at the end of a column step, only if a node
\* of that type has been created; every class tag that has a node is
\* declared.
C17_DeclarationBookkeeping ==
    /\ NodeTags \subseteq DeclaredTags
    /\ DeclaredTags \ {cfg.main_entity_type_uri} \subseteq NodeTags
    /\ pc # "start" => cfg.main_entity_type_uri \in DeclaredTags

C17_Witness ==
    /\ pc = "done"
    /\ cfg.main_entity_type_uri = ClassQ
    /\ DeclaredTags = {ClassQ, ClassP, ClassP2}
    /\ NodeTags = DeclaredTags

\* C18: every entity made by an object-property column configured without
\* a related class is typed with, and cached under, the generic
\* related-entity class, and the column step completes with its links.
C18_FallbackClass ==
    (/\ last.op = "main"
     /\ MappingOf(last.col).mapping_type = "object_property"
     /\ MappingOf(last.col).related_entity_type_uri = <<>>)
    => \A j \in 1..Len(last.final) :
          LET uri == NodeUri(RelatedEntityTag, last.used[j])
          IN  /\ Len(rowc[last.col]) = Len(last.final)
              /\ rowc[last.col][j] = uri
              /\ <<uri, RDF_type, Uri(RelatedEntityTag)>> \in g
              /\ <<RelatedEntityTag, uri>> \in cache
              /\ <<main_uri, Uri(MappingOf(last.col).prop_uri), uri>> \in last.added

C18_Witness ==
    /\ last.op = "main"
    /\ last.col = "A"
    /\ MappingOf("A").related_entity_type_uri = <<>>
    /\ row.A = <<"a", ";", "b">>
    /\ <<NodeUri(RelatedEntityTag, <<"b">>), RDF_type, Uri(RelatedEntityTag)>> \in last.added
    /\ <<RelatedEntityTag, NodeUri(RelatedEntityTag, <<"a">>)>> \in cache

\* the node the target column makes, in row r, of the value at position j
\* of the retained values f of its cell
TargetNode(r, tm, f, j) ==
    NodeUri(RelatedTypeUri(tm), RelatedIdValue(cfg, r, tm, j, f[j]))

\* the literal columns that apply to another column, wherever they stand
DependentColumns ==
    {m \in {cfg.column_rdf_mappings[i] : i \in 1..Len(cfg.column_rdf_mappings)} :
        m.applies_to_entity # "main_entity"}

\* C19: at the end of every row, whether a dependent column stands before
\* or after its target column in the mapping, the first value of its cell
\* has reached the first entity the target column made in that row.
C19_PassOrder ==
    (pc = "rows" /\ index >= 1) =>
        \A m \in DependentColumns :
            (/\ ~NoEntityFrom(m.applies_to_entity)
             /\ SourceValues(row, m) # <<>>
             /\ SourceValues(row, m)[1] # <<>>)
            => \E f \in FinalValueChoices(row, MappingOf(m.applies_to_entity)) :
                  LET t == <<TargetNode(row, MappingOf(m.applies_to_entity), f, 1),
                             Uri(m.prop_uri),
                             Literal(SourceValues(row, m)[1], m.datatype)>>
                  IN  /\ t \in g
                      /\ last.col = m.col => (last.op = "related" /\ t \in last.added)

C19_Witness ==
    /\ pc = "rows"
    /\ index = 1
    /\ cfg.column_rdf_mappings[1].col = "D"
    /\ cfg.column_rdf_mappings[1].is_multivalued
    /\ row.A = <<"a", ";", "b">>
    /\ row.D = <<"v", ";", "w">>
    /\ last.added =
         {<<NodeUri(ClassP, <<"a">>), Uri(<<"p:", "D">>), Literal(<<"v">>, XSD_anyURI)>>,
          <<NodeUri(ClassP, <<"b">>), Uri(<<"p:", "D">>), Literal(<<"w">>, XSD_anyURI)>>}

\* C20: the targets of a dependent column in a row are exactly the nodes
\* its target column made in that row, and no other node receives a triple
\* from the dependent column's step.
C20_RowScopedTargets ==
    last.op = "related" =>
        LET target == MappingOf(last.col).applies_to_entity
        IN  IF NoEntityFrom(target) THEN last.added = {}
            ELSE \E f \in FinalValueChoices(row, MappingOf(target)) :
                    /\ rowc[target] = [j \in 1..Len(f) |->
                                          TargetNode(row, MappingOf(target), f, j)]
                    /\ \A t \in last.added : \E j \in 1..Len(f) :
                          t[1] = TargetNode(row, MappingOf(target), f, j)

C20_Witness ==
    /\ last.op = "related"
    /\ Len(hist) = 2
    /\ hist[1].row.A = <<"a", ";", "b">>
    /\ hist[1].row.D = <<"v">>
    /\ row.A = <<"c">>
    /\ row.D = <<"v">>
    /\ <<ClassP, NodeUri(ClassP, <<"a">>)>> \in cache
    /\ last.added =
         {<<NodeUri(ClassP, <<"c">>), Uri(<<"p:", "D">>), Literal(<<"v">>, XSD_anyURI)>>}

\* the form passes every check of the generate action
FormValid(c) ==
    /\ \E i \in 1..Len(c.main_entity_type_uri) : c.main_entity_type_uri[i] \notin Whitespace
    /\ c.main_entity_id_col # NoSelection
    /\ \A i \in 1..Len(c.column_rdf_mappings) :
          LET m == c.column_rdf_mappings[i]
          IN  /\ \E k \in 1..Len(m.prop_uri) : m.prop_uri[k] \notin Whitespace
              /\ m.mapping_type = "object_property"
                   => \E k \in 1..Len(m.related_entity_type_uri) :
                         m.related_entity_type_uri[k] \notin Whitespace

ErrorShown == \E i \in 1..Len(pout) : pout[i].kind = "error"

TypeAndLabel(graph, node) ==
    {t \in graph : t[1] = node /\ t[2] \in {RDF_type, RDFS_label}}

\* C21: a reference, in a step of the main-entity pass, to a (class tag,
\* node id) pair that the global cache already holds adds no type triple
\* and no label triple for the node, only the link from the row's main node;
\* a pair that is new gets as label the discriminator of its first reference.
C21_CacheHitFrame ==
    [][(pc = "main" /\ Head(todo).mapping_type = "object_property") =>
          LET m == Head(todo)
              tag == RelatedTypeUri(m)
              node(j) == NodeUri(tag, last'.used[j])
          IN  \A j \in 1..Len(last'.used) :
                 /\ <<main_uri, Uri(m.prop_uri), node(j)>> \in last'.added
                 /\ <<tag, node(j)>> \in cache'
                 /\ IF <<tag, node(j)>> \in cache
                    THEN /\ TypeAndLabel(g', node(j)) = TypeAndLabel(g, node(j))
                         /\ TypeAndLabel(last'.added, node(j)) = {}
                    ELSE LET first == CHOOSE k \in 1..j :
                                         /\ node(k) = node(j)
                                         /\ \A n \in 1..(k - 1) : node(n) # node(j)
                         IN  TypeAndLabel(last'.added, node(j)) =
                                {<<node(j), RDF_type, Uri(tag)>>,
                                 <<node(j), RDFS_label, Literal(last'.used[first], <<>>)>>}
      ]_vars

C21_Witness ==
    /\ last.op = "main"
    /\ last.col = "A"
    /\ Len(hist) = 2
    /\ hist[1].row.A = <<"x", " ", "y">>
    /\ row.A = <<"x", "_", "y">>
    /\ last.used = <<<<"x", "_", "y">>>>
    /\ last.added = {ClassDeclaration(ClassP),
                     <<main_uri, Uri(<<"p:", "A">>), NodeUri(ClassP, <<"x", "_", "y">>)>>}
    /\ LabelTriples(NodeUri(ClassP, <<"x", "_", "y">>)) =
          {<<NodeUri(ClassP, <<"x", "_", "y">>), RDFS_label, Literal(<<"x", " ", "y">>, <<>>)>>}

\* the triples of the dependent column's own property that its step added
DependentLiterals == {t \in last.added : t[2] = Uri(MappingOf(last.col).prop_uri)}

\* the smaller of two numbers
Shorter(a, b) == IF a <= b THEN a ELSE b

\* C22: unless the dependent cell has exactly one value and the target
\* column made more than one entity, the value at position i goes to the
\* node at position i of the row-local target list for every i up to the
\* shorter length, and nothing else is attached.
C22_ZipAndTruncate ==
    (/\ last.op = "related"
     /\ TargetProduced(rowc, MappingOf(last.col).applies_to_entity)
     /\ ~(Len(last.src) = 1 /\ Len(rowc[MappingOf(last.col).applies_to_entity]) > 1))
    => LET m == MappingOf(last.col)
           targets == rowc[m.applies_to_entity]
       IN  DependentLiterals =
              {<<targets[i], Uri(m.prop_uri), Literal(last.src[i], m.datatype)>>
                  : i \in 1..Shorter(Len(last.src), Len(targets))}

\* C22, amended: as C22, except that when there are as many values as
\* targets an empty value is attached to nothing.
C22_ZipTruncateSkipEmpty ==
    (/\ last.op = "related"
     /\ TargetProduced(rowc, MappingOf(last.col).applies_to_entity)
     /\ ~(Len(last.src) = 1 /\ Len(rowc[MappingOf(last.col).applies_to_entity]) > 1))
    => LET m == MappingOf(last.col)
           targets == rowc[m.applies_to_entity]
       IN  DependentLiterals =
              {<<targets[i], Uri(m.prop_uri), Literal(last.src[i], m.datatype)>>
                  : i \in {k \in 1..Shorter(Len(last.src), Len(targets)) :
                              Len(last.src) = Len(targets) => last.src[k] # <<>>}}

C22_Witness ==
    /\ last.op = "related"
    /\ cfg.name = "zip"
    /\ Len(hist) = 2
    /\ hist[1].row.A = <<"c">>
    /\ hist[1].row.D = <<"v", ";", " ", "w", ";", "u">>
    /\ MappingOf("D").is_multivalued
    /\ row.A = <<"a", ";", "b", ";", "c">>
    /\ row.D = <<"v", ";", "w">>
    /\ DependentLiterals =
         {<<NodeUri(ClassP, <<"a">>), Uri(<<"p:", "D">>), Literal(<<"v">>, XSD_anyURI)>>,
          <<NodeUri(ClassP, <<"b">>), Uri(<<"p:", "D">>), Literal(<<"w">>, XSD_anyURI)>>}
    /\ <<NodeUri(ClassP, <<"c">>), Uri(<<"p:", "D">>), Literal(<<"w">>, XSD_anyURI)>> \notin g
    /\ <<NodeUri(ClassP, <<"c">>), Uri(<<"p:", "D">>), Literal(<<"v">>, XSD_anyURI)>> \in g

\* the positions of a cell where a piece begins (ends): a character that
\* is neither white space nor the delimiter, with only white space between
\* it and the delimiter, or the end of the cell, before (after) it
PieceStarts(s, d) ==
    {i \in 1..Len(s) :
        /\ s[i] \notin Whitespace \cup {d}
        /\ \E a \in 0..(i - 1) :
              /\ a = 0 \/ s[a] = d
              /\ \A k \in (a + 1)..(i - 1) : s[k] \in Whitespace}

PieceEnds(s, d) ==
    {i \in 1..Len(s) :
        /\ s[i] \notin Whitespace \cup {d}
        /\ \E b \in (i + 1)..(Len(s) + 1) :
              /\ b = Len(s) + 1 \/ s[b] = d
              /\ \A k \in (i + 1)..(b - 1) : s[k] \in Whitespace}

\* the element of a set of numbers with k - 1 smaller ones
Nth(S, k) == CHOOSE x \in S : Cardinality({y \in S : y < x}) = k - 1

\* C23: for a multi-valued column the values are the pieces of the cell
\* between delimiters, trimmed, without the empty ones, from left to right;
\* for a column that is not multi-valued the one value is the cell's text.
C23_ValueSplitting ==
    pc = "split1" =>
        IF pin.is_multivalued
        THEN /\ Len(pout) = Cardinality(PieceStarts(pin.raw_value, ";"))
             /\ Cardinality(PieceEnds(pin.raw_value, ";")) = Len(pout)
             /\ \A k \in 1..Len(pout) :
                   pout[k] = SubSeq(pin.raw_value, Nth(PieceStarts(pin.raw_value, ";"), k),
                                    Nth(PieceEnds(pin.raw_value, ";"), k))
        ELSE pout = <<pin.raw_value>>

C23_Witness ==
    /\ pc = "split1"
    /\ pin.is_multivalued
    /\ pin.raw_value = <<"b", ";", " ", ";", "a">>
    /\ pout = <<<<"b">>, <<"a">>>>

\* the cell of the column holds only white space and delimiters
OnlyBlanksAndDelimiters(r, m) ==
    /\ r[m.col] # NULL
    /\ \A k \in 1..Len(r[m.col]) : r[m.col][k] \in Whitespace \cup {m.delimiter}

\* C24: a multi-valued column whose cell splits to no values adds no
\* triple in the row, in either pass: no literal, no related node, no class
\* declaration, no entry of the row-local cache; the run goes on.
C24_EmptySplit ==
    (/\ last.op \in {"main", "related"}
     /\ MappingOf(last.col).is_multivalued
     /\ OnlyBlanksAndDelimiters(row, MappingOf(last.col)))
    => /\ last.added = {}
       /\ last.used = <<>>
       /\ last.op = "main" => rowc[last.col] = <<>>
       /\ pc \in {"main", "related", "rows"}

C24_Witness ==
    /\ pc = "rows"
    /\ cfg.name = "dep"
    /\ Len(hist) = 2
    /\ hist[1].row.A = <<" ", ";">>
    /\ hist[1].row.D = <<"v">>
    /\ row.A = <<"c">>
    /\ row.D = <<"v">>
    /\ {t \in g : t[1] = hist[1].main_uri \/ t[3] = hist[1].main_uri}
          = {<<hist[1].main_uri, RDF_type, Uri(ClassQ)>>,
             <<hist[1].main_uri, RDFS_label, Literal(hist[1].main_id_value, <<>>)>>}
    /\ <<hist[2].main_uri, Uri(<<"p:", "A">>), NodeUri(ClassP, <<"c">>)>> \in g
    /\ <<NodeUri(ClassP, <<"c">>), Uri(<<"p:", "D">>), Literal(<<"v">>, XSD_anyURI)>> \in g

\* C25: a literal column of the main entity adds nothing for a row whose
\* cell is null or absent, and otherwise exactly the triples (main node,
\* property, value with the column's datatype), one for each value of the
\* cell.
C25_MainLiterals ==
    (/\ last.op = "main"
     /\ MappingOf(last.col).mapping_type = "literal")
    => LET m == MappingOf(last.col)
           cell == RowGet(row, last.col)
           values == IF m.is_multivalued
                     THEN {SubSeq(cell, Nth(PieceStarts(cell, m.delimiter), k),
                                  Nth(PieceEnds(cell, m.delimiter), k))
                           : k \in 1..Cardinality(PieceStarts(cell, m.delimiter))}
                     ELSE {cell}
       IN  last.added = IF cell = NULL THEN {}
                        ELSE {<<main_uri, Uri(m.prop_uri), Literal(v, m.datatype)>>
                              : v \in values}

C25_Witness ==
    /\ last.op = "main"
    /\ last.col = "L"
    /\ MappingOf("L").is_multivalued
    /\ row.L = <<"v", ";", " ", "w">>
    /\ Len(hist) = 2
    /\ hist[1].row.L = NULL
    /\ g = {ClassDeclaration(ClassQ),
            <<hist[1].main_uri, RDF_type, Uri(ClassQ)>>,
            <<hist[1].main_uri, RDFS_label, Literal(hist[1].main_id_value, <<>>)>>,
            <<main_uri, RDF_type, Uri(ClassQ)>>,
            <<main_uri, RDFS_label, Literal(hist[2].main_id_value, <<>>)>>,
            <<main_uri, Uri(<<"p:", "L">>), Literal(<<"v">>, XSD_anyURI)>>,
            <<main_uri, Uri(<<"p:", "L">>), Literal(<<"w">>, XSD_anyURI)>>}

\* C26: the sanitizer turns every maximal run of characters other than
\* letters, digits, '.' and '-' into one '_': between two neighbouring kept
\* characters of its result there is never more than one underscore.
C26_RunsCollapsed ==
    pc \in {"clean1", "clean2"} =>
        \A i \in 1..(Len(pout[1]) - 1) :
            (pout[1][i] = "_" /\ pout[1][i + 1] = "_")
            => ~(/\ \E a \in 1..(i - 1) : pout[1][a] # "_"
                 /\ \E b \in (i + 2)..Len(pout[1]) : pout[1][b] # "_")

\* the values of a cell are distinct and none overlaps another: no
\* sanitized form is a prefix of the sanitized form of another value
NonOverlapping(values) ==
    \A i \in 1..Len(values), j \in 1..Len(values) :
        i # j => ~StartsWith(clean_uri_segment(values[i]), clean_uri_segment(values[j]))

\* C27: when a multi-valued object-property column has n distinct values
\* none of which overlaps another and a dependent column has n values in the
\* same row, the dependent value at position k of its cell is attached to
\* the entity made from the value at position k of the target cell.
C27_AlignedWithSourceOrder ==
    (/\ last.op = "related"
     /\ ~NoEntityFrom(MappingOf(last.col).applies_to_entity)
     /\ MappingOf(MappingOf(last.col).applies_to_entity).is_multivalued
     /\ MappingOf(MappingOf(last.col).applies_to_entity).related_entity_id_col = ""
     /\ NonOverlapping(SourceValues(row, MappingOf(MappingOf(last.col).applies_to_entity)))
     /\ Len(last.src) >= 2
     /\ Len(last.src) =
           Len(SourceValues(row, MappingOf(MappingOf(last.col).applies_to_entity))))
    => LET m == MappingOf(last.col)
           tm == MappingOf(m.applies_to_entity)
           tv == SourceValues(row, tm)
       IN  \A k \in 1..Len(tv) :
              <<NodeUri(RelatedTypeUri(tm), tv[k]), Uri(m.prop_uri),
                Literal(last.src[k], m.datatype)>> \in last.added

\* C28: a dependent column that is not multi-valued and whose cell is the
\* empty string attaches nothing, whether its target column made one entity
\* in the row or several.
C28_BlankDependentCell ==
    (/\ last.op = "related"
     /\ ~MappingOf(last.col).is_multivalued
     /\ row[last.col] = <<>>)
    => last.added = {}

\* no element of the set is a strict prefix of another
PrefixFree(S) == \A e1 \in S, e2 \in S : ~StrictPrefix(e1, e2)

\* C29: at every step of the reduction no kept form is a strict prefix of
\* another kept form; so a candidate supersedes at most one kept form, is
\* never both superseding and discarded, and the pass ends the same way
\* whichever deciding kept form is met first.
C29_KeptSetInvariant ==
    pc \in {"reduce1", "reduce2"} =>
        /\ PrefixFree(pout.kept)
        /\ pc = "reduce1" =>
              LET val == pout.sorted[pout.i]
                  cv == clean_uri_segment(val)
                  shorter == {e \in pout.kept : StrictPrefix(e, cv)}
                  longer == {e \in pout.kept : StrictPrefix(cv, e)}
              IN  /\ Cardinality(shorter) <= 1
                  /\ shorter = {} \/ longer = {}
                  /\ Cardinality(ReduceStep(pout.kept, pout.final, val)) = 1

C29_Witness ==
    /\ pc = "reduce1"
    /\ pout.kept = {<<"a", "a">>, <<"a", "b">>}
    /\ pout.sorted[pout.i] = <<"a">>
    /\ Cardinality(Subsuming(pout.kept, <<"a">>)) = 2

\* the node is in the global cache under the class tag and has the type
\* triple of that class and a label triple
Registered(tag, node) ==
    /\ <<tag, node>> \in cache
    /\ <<node, RDF_type, Uri(tag)>> \in g
    /\ LabelTriples(node) # {}

AllMappings == {cfg.column_rdf_mappings[i] : i \in 1..Len(cfg.column_rdf_mappings)}

\* between the steps of a conversion run: every object of an edge of an
\* object-property column, every node of the row-local cache and every
\* subject of a triple of a dependent column is registered under the class
\* tag of the column that made it
NoUntypedRelatedNode ==
    pc \in {"start", "rows", "main", "related", "done"} =>
        /\ \A m \in {x \in AllMappings : x.mapping_type = "object_property"
                                          /\ x.applies_to_entity = "main_entity"} :
              /\ \A t \in {x \in g : x[2] = Uri(m.prop_uri)} :
                    Registered(RelatedTypeUri(m), t[3])
              /\ \A i \in 1..Len(rowc[m.col]) :
                    Registered(RelatedTypeUri(m), rowc[m.col][i])
        /\ \A d \in DependentColumns :
              \A t \in {x \in g : x[2] = Uri(d.prop_uri)} :
                 Registered(RelatedTypeUri(MappingOf(d.applies_to_entity)), t[1])
        /\ \A t \in {x \in g : x[2] = DRBER_code} :
              \E d \in DependentColumns :
                 Registered(RelatedTypeUri(MappingOf(d.applies_to_entity)), t[1])

\* C30: in every state of a conversion run every node that is the object
\* of an object-property edge, is listed in the row-local cache or is the
\* subject of a dependent literal is registered in the global cache under
\* its class tag, with its type triple and a label triple; and no step
\* removes an entry of the global cache.
C30_NoUntypedRelatedNodes ==
    /\ []NoUntypedRelatedNode
    /\ [][cache \subseteq cache']_vars

C30_Witness ==
    /\ last.op = "related"
    /\ Len(hist) = 2
    /\ hist[1].row.A = <<"a", ";", "b">>
    /\ row.A = <<"c">>
    /\ row.D = <<"v">>
    /\ cache = {<<ClassP, NodeUri(ClassP, <<"a">>)>>, <<ClassP, NodeUri(ClassP, <<"b">>)>>,
                <<ClassP, NodeUri(ClassP, <<"c">>)>>}
    /\ rowc.A = <<NodeUri(ClassP, <<"c">>)>>
    /\ <<NodeUri(ClassP, <<"c">>), Uri(<<"p:", "D">>), Literal(<<"v">>, XSD_anyURI)>> \in g
    /\ Registered(ClassP, NodeUri(ClassP, <<"c">>))

====
